---- MODULE Spec2Model ----
(***************************************************************************)
(* A state-machine model of the SPH fluid simulator:                       *)
(*   src/src/simulation/fluid_engine.rs   FluidSimulator (new/step/to_seed)*)
(*   src/wasm/src/lib.rs                  SimulationEngine (host binding)  *)
(*                                                                         *)
(* The constructor, the order in which step calls its four stages, the     *)
(* position readback and to_seed follow the source.  The bodies of the     *)
(* four stages (update_forces, compute_sph_forces, handle_collisions,      *)
(* integrate) are not part of the source files: the model fixes only which *)
(* fields of a particle each stage may write (design document, sections    *)
(* 4.3-4.5) and that no stage creates or destroys a particle (section 3);  *)
(* the values written are left open.  Scalars (f32 in the source) are      *)
(* integers; non-finite values are not represented.                        *)
(***************************************************************************)
EXTENDS Integers, Sequences, FiniteSets

VARIABLES
    engine,         \* "none" | "live": whether a SimulationEngine exists
    particles,      \* FluidSimulator.particles : Vec<Particle>
    config,         \* FluidSimulator.config
    physics_params, \* FluidSimulator.physics_params
    objects,        \* FluidSimulator.objects : Vec<SimulationObject>
    pc,             \* position inside step: "idle" or the stage about to run
    dt,             \* argument of the step call in progress / last made
    trace,          \* stages the current (or last) step call has run, in order
    steps,          \* number of step calls made
    lastCall,       \* last API call made by the host
    result,         \* how the last API call ended: "ok" | "err" | "panic"
    newArg,         \* argument of the last constructor call
    readback        \* value returned by the last get_particle_positions

vars == <<engine, particles, config, physics_params, objects, pc, dt, trace,
          steps, lastCall, result, newArg, readback>>

simState == <<particles, config, physics_params, objects>>

\* ------------------------------------------------------------------ bounds
MaxCount == 2   \* largest particle_count / particle vector length enumerated
MaxSteps == 2   \* step calls per behaviour

\* ------------------------------------------------------------- data model
Zero3 == <<0, 0, 0>>
Axes == 1..3

\* values a particle's fields range over
Positions == {Zero3, <<1, 0, 2>>}
Velocities == {Zero3}
Forces == {Zero3, <<0, -1, 0>>}
Densities == {0, 1}
Pressures == {0}

\* Particle: position, velocity, density, pressure, mass, accumulated force
ParticleValues ==
    [position : Positions, velocity : Velocities, density : Densities,
     pressure : Pressures, mass : {1}, force : Forces]

\* PhysicsParams::default(): the type and its default are not in the source
\* files; the value is kept opaque.
PhysicsParamsDefault == [default |-> TRUE]

\* SimulationConfig values the host may pass.  particle_count is a usize;
\* smoothing_radius is any scalar, the constructor being the only check.
Configs ==
    [particle_count : 0..MaxCount,
     smoothing_radius : {-1, 0, 2},
     gravity : {Zero3, <<0, -1, 0>>}]

NullConfig == CHOOSE c \in Configs : c.particle_count = 0 /\ c.smoothing_radius = 0 /\ c.gravity = Zero3

\* JsValue arguments of the binding's constructor: one that does not
\* deserialize into a SimulationConfig, and every one that does.
JsValues ==
    {[well_typed |-> FALSE, cfg |-> NullConfig]} \cup
    {[well_typed |-> TRUE, cfg |-> c] : c \in Configs}

ValidConfig(c) == c.particle_count > 0 /\ c.smoothing_radius > 0

\* dt arguments of step: invalid (<= 0) and valid ones.
DtValues == {-1, 0, 1, 2}
ValidDt(d) == d > 0

\* --------------------------------------------------------- constructor
\* FluidSimulator::new: Vec::with_capacity reserves room and creates no
\* particle; no field of config is inspected.
new(c) ==
    [particles |-> << >>, config |-> c,
     physics_params |-> PhysicsParamsDefault, objects |-> << >>]

\* --------------------------------------------------------- readback
\* mutant: the closure emits x, z, y
RECURSIVE get_particle_positions_swapped(_)
get_particle_positions_swapped(ps) ==
    IF ps = << >> THEN << >>
    ELSE <<Head(ps).position[1], Head(ps).position[3], Head(ps).position[2]>>
         \o get_particle_positions_swapped(Tail(ps))

RECURSIVE get_particle_positions(_)
get_particle_positions(ps) ==
    IF ps = << >> THEN << >>
    ELSE <<Head(ps).position[1], Head(ps).position[2], Head(ps).position[3]>>
         \o get_particle_positions(Tail(ps))

\* --------------------------------------------------------- the stages
\* What a stage may make of one particle: the fields it writes take any
\* value, the others are kept.
\*   update_forces       external forces: the force accumulator
\*   compute_sph_forces  particle-particle interaction: density, pressure, force
\*   handle_collisions   object collisions: position and velocity
\*   integrate           integration: velocity and position
StageWrites(p, stage) ==
    CASE stage = "update_forces" ->
            {[p EXCEPT !.force = f] : f \in Forces}
      [] stage = "compute_sph_forces" ->
            {[p EXCEPT !.density = d, !.pressure = pr, !.force = f] :
                d \in Densities, pr \in Pressures, f \in Forces}
      [] stage \in {"handle_collisions", "integrate"} ->
            {[p EXCEPT !.position = x, !.velocity = v] :
                x \in Positions, v \in Velocities}

\* The particle vectors a stage may leave behind: every particle is
\* rewritten in place; the length and the order of the vector are kept.
RECURSIVE Rewrites(_, _)
Rewrites(ps, stage) ==
    IF ps = << >> THEN {<< >>}
    ELSE {<<q>> \o qs : q \in StageWrites(Head(ps), stage),
                        qs \in Rewrites(Tail(ps), stage)}

update_forces(ps) == Rewrites(ps, "update_forces")
compute_sph_forces(ps) == Rewrites(ps, "compute_sph_forces")
handle_collisions(ps) == Rewrites(ps, "handle_collisions")
integrate(ps, d) == Rewrites(ps, "integrate")

\* ------------------------------------------------------------- actions
\* SimulationEngine::new (lib.rs 11-16): the only failure is a JsValue that
\* does not deserialize; every SimulationConfig is handed to
\* FluidSimulator::new, which cannot fail.
New(js) ==
    /\ engine = "none"
    /\ pc = "idle"
    /\ lastCall' = "new"
    /\ newArg' = js
    /\ readback' = << >>
    /\ UNCHANGED <<pc, dt, trace, steps>>
    /\ IF js.well_typed
       THEN /\ engine' = "live"
            /\ particles' = new(js.cfg).particles
            /\ config' = new(js.cfg).config
            /\ physics_params' = new(js.cfg).physics_params
            /\ objects' = new(js.cfg).objects
            /\ result' = "ok"
       ELSE /\ result' = "err"
            /\ UNCHANGED <<engine, particles, config, physics_params, objects>>

\* SimulationEngine::step / FluidSimulator::step entry: dt is taken as is
\* (no check, no error path); the first stage is about to run.
StepCall(d) ==
    /\ engine = "live"
    /\ pc = "idle"
    /\ steps < MaxSteps
    /\ pc' = "update_forces"
    /\ dt' = d
    /\ trace' = << >>
    /\ steps' = steps + 1
    /\ lastCall' = "step"
    /\ result' = "running"
    /\ readback' = << >>
    /\ UNCHANGED <<engine, particles, config, physics_params, objects, newArg>>

\* mutant: the SPH stage is left out of step, collisions follow directly
StepUpdateForces_SkipsSph ==
    /\ pc = "update_forces"
    /\ particles' \in update_forces(particles)
    /\ trace' = Append(trace, "update_forces")
    /\ pc' = "handle_collisions"
    /\ UNCHANGED <<engine, config, physics_params, objects, dt, steps, lastCall,
                   result, newArg, readback>>

\* fluid_engine.rs 22: self.update_forces()
StepUpdateForces ==
    /\ pc = "update_forces"
    /\ particles' \in update_forces(particles)
    /\ trace' = Append(trace, "update_forces")
    /\ pc' = "compute_sph_forces"
    /\ UNCHANGED <<engine, config, physics_params, objects, dt, steps, lastCall,
                   result, newArg, readback>>

\* fluid_engine.rs 25: self.compute_sph_forces()
StepComputeSphForces ==
    /\ pc = "compute_sph_forces"
    /\ particles' \in compute_sph_forces(particles)
    /\ trace' = Append(trace, "compute_sph_forces")
    /\ pc' = "handle_collisions"
    /\ UNCHANGED <<engine, config, physics_params, objects, dt, steps, lastCall,
                   result, newArg, readback>>

\* fluid_engine.rs 28: self.handle_collisions()
StepHandleCollisions ==
    /\ pc = "handle_collisions"
    /\ particles' \in handle_collisions(particles)
    /\ trace' = Append(trace, "handle_collisions")
    /\ pc' = "integrate"
    /\ UNCHANGED <<engine, config, physics_params, objects, dt, steps, lastCall,
                   result, newArg, readback>>

\* fluid_engine.rs 31: self.integrate(dt); step then returns ()
StepIntegrate ==
    /\ pc = "integrate"
    /\ particles' \in integrate(particles, dt)
    /\ trace' = Append(trace, "integrate")
    /\ pc' = "idle"
    /\ result' = "ok"
    /\ UNCHANGED <<engine, config, physics_params, objects, dt, steps, lastCall,
                   newArg, readback>>

\* SimulationEngine::get_particle_positions (&self)
GetParticlePositions ==
    /\ engine = "live"
    /\ pc = "idle"
    /\ readback' = get_particle_positions(particles)
    /\ lastCall' = "get_particle_positions"
    /\ result' = "ok"
    /\ UNCHANGED <<engine, particles, config, physics_params, objects, pc, dt,
                   trace, steps, newArg>>

\* FluidSimulator::to_seed (&self): unimplemented!() panics, nothing is returned
ToSeed ==
    /\ engine = "live"
    /\ pc = "idle"
    /\ lastCall' = "to_seed"
    /\ result' = "panic"
    /\ readback' = << >>
    /\ UNCHANGED <<engine, particles, config, physics_params, objects, pc, dt,
                   trace, steps, newArg>>

\* ------------------------------------------------- specification: the program
Init ==
    /\ engine = "none"
    /\ particles = << >>
    /\ config = NullConfig
    /\ physics_params = PhysicsParamsDefault
    /\ objects = << >>
    /\ pc = "idle"
    /\ dt = 0
    /\ trace = << >>
    /\ steps = 0
    /\ lastCall = "none"
    /\ result = "none"
    /\ newArg = [well_typed |-> FALSE, cfg |-> NullConfig]
    /\ readback = << >>

Next ==
    \/ \E js \in JsValues : New(js)
    \/ \E d \in DtValues : StepCall(d)
    \/ StepUpdateForces
    \/ StepComputeSphForces
    \/ StepHandleCollisions
    \/ StepIntegrate
    \/ GetParticlePositions
    \/ ToSeed

Spec == Init /\ [][Next]_vars

\* ------------------- specification: the readback on any particle vector
\* get_particle_positions is a pure function of self.simulator.particles.
\* The program's own vector is the empty one new leaves behind (Spec); here
\* the function is applied to every Vec<Particle> value up to MaxCount
\* particles, the empty one included, before and after step calls.
ParticleVectors == UNION {[1..n -> ParticleValues] : n \in 0..MaxCount}

InitReadback ==
    /\ engine = "live"
    /\ particles \in ParticleVectors
    /\ config = NullConfig
    /\ physics_params = PhysicsParamsDefault
    /\ objects = << >>
    /\ pc = "idle"
    /\ dt = 0
    /\ trace = << >>
    /\ steps = 0
    /\ lastCall = "new"
    /\ result = "ok"
    /\ newArg = [well_typed |-> TRUE, cfg |-> NullConfig]
    /\ readback = << >>

NextReadback ==
    \/ \E d \in DtValues : StepCall(d)
    \/ StepUpdateForces
    \/ StepComputeSphForces
    \/ StepHandleCollisions
    \/ StepIntegrate
    \/ GetParticlePositions

SpecReadback == InitReadback /\ [][NextReadback]_vars

\* =================================================================== claims
Stages == <<"update_forces", "compute_sph_forces", "handle_collisions", "integrate">>

\* C1: right after construction, before any step, the flat position readback
\* has length 3 * particle_count.
C1_ReadbackLengthAfterNew ==
    (engine = "live" /\ steps = 0)
        => Len(get_particle_positions(particles)) = 3 * config.particle_count

\* C2: construction fails, creating no simulator, exactly when particle_count
\* is zero or smoothing_radius <= 0, and succeeds for every other config.
C2_ConstructionValidates ==
    (lastCall = "new" /\ newArg.well_typed)
        => IF ValidConfig(newArg.cfg)
           THEN result = "ok" /\ engine = "live"
           ELSE result = "err" /\ engine = "none"

\* C3: a step call with a non-positive dt reports an error and runs no
\* pipeline stage.
C3_InvalidDtRejected ==
    (lastCall = "step" /\ ~ValidDt(dt))
        => (pc = "idle" /\ trace = << >> /\ result = "err")

\* C4: to_seed returns a seed to its caller.
C4_ToSeedReturns ==
    lastCall = "to_seed" => result = "ok"

\* C6: the number of particles equals config.particle_count from
\* construction onward.
C6_ParticleCountFixed ==
    engine = "live" => Len(particles) = config.particle_count

\* the value last returned by get_particle_positions holds, for particle i,
\* its x, y, z at offsets 3i, 3i+1, 3i+2 (1-based: 3(i-1)+1 ..)
ReadbackMatches ==
    lastCall = "get_particle_positions"
        => /\ Len(readback) = 3 * Len(particles)
           /\ \A i \in 1..Len(particles) : \A a \in Axes :
                 readback[3 * (i - 1) + a] = particles[i].position[a]

\* C8: after any sequence of completed steps the readback is the flat,
\* particle-index-ordered sequence of x, y, z, and making it changes no
\* simulator state.
C8_ReadbackFlatOrdered ==
    /\ []ReadbackMatches
    /\ [][(pc = "idle" /\ pc' = "idle" /\ lastCall' = "get_particle_positions")
             => simState' = simState]_vars

\* a readback made after a step on a store of two particles at different places
C8_Witness ==
    /\ lastCall = "get_particle_positions"
    /\ steps > 0
    /\ Len(particles) = 2
    /\ particles[1].position # particles[2].position

\* C9 (as claimed): the first stage of a step is the spatial index rebuild,
\* followed by the force model, the collision resolver and the integrator.
C9_StageOrderClaimed ==
    (lastCall = "step" /\ pc = "idle")
        => trace = <<"rebuild_spatial_index", "compute_sph_forces",
                     "handle_collisions", "integrate">>

\* C9 (amended): a step runs update_forces, compute_sph_forces,
\* handle_collisions, integrate, each exactly once and in that order; the
\* stages run so far are always a prefix of that sequence and the next one
\* to run is the one that follows.
C9_StageOrder ==
    /\ Len(trace) <= 4
    /\ trace = SubSeq(Stages, 1, Len(trace))
    /\ pc = "idle" => (Len(trace) = 4 \/ (Len(trace) = 0 /\ steps = 0))
    /\ pc # "idle" => (Len(trace) < 4 /\ pc = Stages[Len(trace) + 1])

\* a second step call has run to completion
C9_Witness ==
    pc = "idle" /\ steps = 2 /\ lastCall = "step" /\ result = "ok"

====
